---------------------------- MODULE Spec2Model ----------------------------
(***************************************************************************)
(* Model of the prediction retrieval and presentation code of the          *)
(* frontend: the Home page component (pages/Home.tsx), the configuration   *)
(* module (config.ts) and the chart adapter (components/PriceChart.tsx).   *)
(*                                                                         *)
(* Spec           the life of the Home component instances: mount, render, *)
(*                the mount effect, the two awaits of fetchPredictions and *)
(*                the synchronous run that follows each of them, unmount.  *)
(* SpecPaginator  totalPages and getCurrentItems applied to inputs drawn   *)
(*                from bounded sets.                                       *)
(***************************************************************************)
EXTENDS Integers, Sequences, FiniteSets, TLC

(***************************************************************************)
(* Bounds of the model.                                                    *)
(***************************************************************************)
\* Number of Home instances (a mount, then remounts).
MaxMounts == 2
\* Cap on the fetches one instance may issue (the code issues one).
MaxFetches == 2
\* Paginator inputs: series lengths 0..MaxSeriesLen, page sizes 1..MaxPageSize,
\* page indexes -MaxPageBelow..MaxPageIndex.
MaxSeriesLen == 17
MaxPageSize == 8
MaxPageIndex == 4
MaxPageBelow == 2

\* Home.tsx line 23
itemsPerPage == 8

Mounts == 1..MaxMounts

(***************************************************************************)
(* JavaScript values that the code distinguishes.                          *)
(***************************************************************************)
Undefined == [type |-> "undefined"]
Null == [type |-> "null"]
Str(s) == [type |-> "string", val |-> s]
Arr(s) == [type |-> "array", val |-> s]

\* ToBoolean of the values above: null, undefined and "" are falsy.
Truthy(v) ==
    CASE v.type = "undefined" -> FALSE
      [] v.type = "null" -> FALSE
      [] v.type = "string" -> v.val # ""
      [] v.type = "array" -> TRUE

\* ToString as a template literal applies it: `${undefined}` is "undefined".
TemplateString(v) ==
    CASE v.type = "undefined" -> "undefined"
      [] v.type = "null" -> "null"
      [] v.type = "string" -> v.val
      [] v.type = "array" -> "[array]"

(***************************************************************************)
(* config.ts: the backend base location by build mode.  Home.tsx does not  *)
(* import it.                                                              *)
(***************************************************************************)
Modes == {"development", "production"}

apiUrl(nodeEnv) ==
    IF nodeEnv = "production"
    THEN "https://btc-predictor-backend.onrender.com"
    ELSE "http://localhost:10000"

\* The literal host of Home.tsx lines 28 and 33.
HomeBaseUrl == "http://localhost:5000"

GenericConnectivityMessage == "Error connecting to the server"
FallbackMessage == "Failed to fetch predictions"

(***************************************************************************)
(* What the backend can answer.                                            *)
(***************************************************************************)
Point1 == [Date |-> "2024-01-01", Predicted_Price |-> 42000]
Point2 == [Date |-> "2024-01-02", Predicted_Price |-> 42100]

Statuses == {200, 500}

Unparsable == [parses |-> FALSE]

Json(success, preds, plot, msg) ==
    [parses |-> TRUE, success |-> success, predictions |-> preds,
     plot_url |-> plot, message |-> msg]

Bodies ==
    { Unparsable,
      Json(TRUE, Arr(<<Point1>>), Str("/plot.png"), Undefined),
      Json(TRUE, Arr(<<Point1, Point2>>), Str("/static/plot.png"), Undefined),
      Json(TRUE, Arr(<<>>), Str("/plot.png"), Undefined),
      Json(TRUE, Undefined, Str("/plot.png"), Undefined),
      Json(FALSE, Undefined, Undefined, Str("model not trained")),
      Json(FALSE, Undefined, Undefined, Str("")),
      Json(FALSE, Undefined, Undefined, Undefined) }

\* A body with the wire shape of the endpoint.
WellShaped(body) ==
    /\ body.parses
    /\ body.success => (body.predictions.type = "array" /\ body.plot_url.type = "string")

NoOutcome == [kind |-> "none"]
Rejected == [kind |-> "rejected"]
Responded(status, body) == [kind |-> "response", status |-> status, body |-> body]

(***************************************************************************)
(* State.                                                                  *)
(***************************************************************************)
VARIABLES
    NODE_ENV,          \* build mode, fixed at build time
    phase,             \* per instance: "unborn", "mounted", "unmounted"
    loading, error, predictions, plotUrl, currentPage,   \* useState cells
    rendered,          \* what the last render of the instance produced
    dirty,             \* a state update awaits a render
    effectPending,     \* the effect is scheduled to run after the commit
    issued,            \* number of fetch calls the instance has made
    reqs,              \* outstanding requests of the instance
    settled,           \* the outcome the instance's last settled request had
    wroteAfterUnmount, \* a setter was called after the instance unmounted
    pgPredictions, pgItemsPerPage, pgCurrentPage, pgItems, pgAcc, pgPc

homeVars == <<NODE_ENV, phase, loading, error, predictions, plotUrl, currentPage,
              rendered, dirty, effectPending, issued, reqs, settled,
              wroteAfterUnmount>>
pgVars == <<pgPredictions, pgItemsPerPage, pgCurrentPage, pgItems, pgAcc, pgPc>>
vars == <<homeVars, pgVars>>

(***************************************************************************)
(* Paginator: Home.tsx lines 47-55.                                        *)
(***************************************************************************)
\* Math.floor(a / b), b > 0.
MathFloorDiv(a, b) == a \div b

\* Math.ceil(a / b), b > 0.
MathCeilDiv(a, b) == IF a % b = 0 THEN a \div b ELSE (a \div b) + 1

totalPagesFloor(preds, perPage) == MathFloorDiv(Len(preds), perPage)

\* line 48
totalPages(preds, perPage) == MathCeilDiv(Len(preds), perPage)

\* Array.prototype.slice(start, end): negative indexes count from the end,
\* both are clamped to [0, length].
RelativeIndex(i, len) ==
    IF i < 0 THEN (IF len + i < 0 THEN 0 ELSE len + i)
    ELSE (IF i > len THEN len ELSE i)

ArraySlice(arr, start, end) ==
    LET k == RelativeIndex(start, Len(arr))
        final == RelativeIndex(end, Len(arr))
    IN  IF k >= final THEN <<>> ELSE SubSeq(arr, k + 1, final)

\* lines 51-55
getCurrentItems(preds, page, perPage) ==
    LET start == page * perPage
        end == start + perPage
    IN  ArraySlice(preds, start, end)

(***************************************************************************)
(* Home: render, lines 47-175.                                             *)
(***************************************************************************)
\* The render of an instance whose cells hold the given values.  Line 48
\* reads predictions.length before the loading test; the table (line 112) and
\* PriceChart (lines 90, 93) call predictions.map.
RenderOf(ld, err, preds) ==
    IF preds.type # "array" THEN "fault"
    ELSE IF ld THEN "spinner"
    ELSE IF Truthy(err) THEN "error"
    ELSE "data"

View(m) == RenderOf(loading[m], error[m], predictions[m])

\* The retrieval state the cells encode.
RetrievalState(m) ==
    IF loading[m] THEN "Loading"
    ELSE IF Truthy(error[m]) THEN "Error"
    ELSE "Ready"

\* An effect without a dependency array runs after every render.
DepsChangedNoArray(firstRender) == TRUE

\* useEffect(..., []) of lines 25-45: the dependencies differ on the first
\* render alone.
DepsChanged(firstRender) == firstRender

(***************************************************************************)
(* fetchPredictions, lines 26-42: the cells after each synchronous run.    *)
(***************************************************************************)
Cells(m) == [loading |-> loading[m], error |-> error[m],
             predictions |-> predictions[m], plotUrl |-> plotUrl[m]]

\* `data.message ?? fallback` in place of `||`.
ServerReportedReasonNullish(body) ==
    IF body.message.type \in {"undefined", "null"} THEN Str(FallbackMessage)
    ELSE body.message

\* line 35: data.message || 'Failed to fetch predictions'
ServerReportedReason(body) ==
    IF Truthy(body.message) THEN body.message ELSE Str(FallbackMessage)

\* lines 37-41: catch, then finally
OnCatch(c) ==
    [c EXCEPT !.error = Str(GenericConnectivityMessage), !.loading = FALSE]

\* lines 29-36 and 39-41 once response.json() has settled with `body`
OnBody(c, body) ==
    IF ~body.parses THEN OnCatch(c)
    ELSE IF body.success
    THEN [c EXCEPT !.predictions = body.predictions,
                   !.plotUrl = HomeBaseUrl \o TemplateString(body.plot_url),
                   !.loading = FALSE]
    ELSE [c EXCEPT !.error = ServerReportedReason(body), !.loading = FALSE]

RemoveAt(s, i) == SubSeq(s, 1, i - 1) \o SubSeq(s, i + 1, Len(s))

\* The setters of one synchronous run applied to instance m.
Commit(m, c) ==
    /\ loading' = [loading EXCEPT ![m] = c.loading]
    /\ error' = [error EXCEPT ![m] = c.error]
    /\ predictions' = [predictions EXCEPT ![m] = c.predictions]
    /\ plotUrl' = [plotUrl EXCEPT ![m] = c.plotUrl]
    /\ dirty' = [dirty EXCEPT ![m] = phase[m] = "mounted"]
    /\ wroteAfterUnmount' =
         [wroteAfterUnmount EXCEPT ![m] = @ \/ phase[m] = "unmounted"]

(***************************************************************************)
(* Initial state                                                           *)
(***************************************************************************)
InitHome ==
    /\ NODE_ENV \in Modes
    /\ phase = [m \in Mounts |-> "unborn"]
    /\ loading = [m \in Mounts |-> TRUE]
    /\ error = [m \in Mounts |-> Null]
    /\ predictions = [m \in Mounts |-> Arr(<<>>)]
    /\ plotUrl = [m \in Mounts |-> ""]
    /\ currentPage = [m \in Mounts |-> 0]
    /\ rendered = [m \in Mounts |-> "none"]
    /\ dirty = [m \in Mounts |-> FALSE]
    /\ effectPending = [m \in Mounts |-> FALSE]
    /\ issued = [m \in Mounts |-> 0]
    /\ reqs = [m \in Mounts |-> <<>>]
    /\ settled = [m \in Mounts |-> NoOutcome]
    /\ wroteAfterUnmount = [m \in Mounts |-> FALSE]

PgIdle ==
    /\ pgPredictions = <<>>
    /\ pgItemsPerPage = itemsPerPage
    /\ pgCurrentPage = 0
    /\ pgItems = <<>>
    /\ pgAcc = <<>>
    /\ pgPc = "idle"

Init == InitHome /\ PgIdle

(***************************************************************************)
(* Actions of Home                                                         *)
(***************************************************************************)
\* The router creates the next instance once the previous one has left the
\* tree (a remount): lines 18-22 give the cells their initial values.
Mount(m) ==
    /\ phase[m] = "unborn"
    /\ \A k \in Mounts : k < m => phase[k] = "unmounted"
    /\ phase' = [phase EXCEPT ![m] = "mounted"]
    /\ loading' = [loading EXCEPT ![m] = TRUE]
    /\ error' = [error EXCEPT ![m] = Null]
    /\ predictions' = [predictions EXCEPT ![m] = Arr(<<>>)]
    /\ plotUrl' = [plotUrl EXCEPT ![m] = ""]
    /\ currentPage' = [currentPage EXCEPT ![m] = 0]
    /\ UNCHANGED <<NODE_ENV, rendered, dirty, effectPending, issued, reqs, settled,
                   wroteAfterUnmount, pgVars>>

\* The component function runs (first render, or after a state update) and
\* the result is committed; the effect is scheduled when its dependencies
\* changed.
Render(m) ==
    /\ phase[m] = "mounted"
    /\ rendered[m] # "fault"
    /\ rendered[m] = "none" \/ dirty[m]
    /\ rendered' = [rendered EXCEPT ![m] = View(m)]
    /\ dirty' = [dirty EXCEPT ![m] = FALSE]
    /\ effectPending' = [effectPending EXCEPT ![m] =
                           View(m) # "fault" /\ DepsChanged(rendered[m] = "none")]
    /\ UNCHANGED <<NODE_ENV, phase, loading, error, predictions, plotUrl, currentPage,
                   issued, reqs, settled, wroteAfterUnmount, pgVars>>

\* lines 25-45: the effect calls fetchPredictions, which runs up to the
\* first await (line 28) with the request outstanding.
RunEffect(m) ==
    /\ phase[m] = "mounted"
    /\ effectPending[m]
    /\ issued[m] < MaxFetches
    /\ effectPending' = [effectPending EXCEPT ![m] = FALSE]
    /\ issued' = [issued EXCEPT ![m] = @ + 1]
    /\ reqs' = [reqs EXCEPT ![m] = Append(@, [stage |-> "fetch", status |-> 0])]
    /\ UNCHANGED <<NODE_ENV, phase, loading, error, predictions, plotUrl, currentPage,
                   rendered, dirty, settled, wroteAfterUnmount, pgVars>>

\* fetch() rejects (line 28): catch and finally run.
FetchReject(m, i) ==
    /\ i \in DOMAIN reqs[m]
    /\ reqs[m][i].stage = "fetch"
    /\ reqs' = [reqs EXCEPT ![m] = RemoveAt(@, i)]
    /\ settled' = [settled EXCEPT ![m] = Rejected]
    /\ Commit(m, OnCatch(Cells(m)))
    /\ UNCHANGED <<NODE_ENV, phase, currentPage, rendered, effectPending, issued, pgVars>>

\* fetch() resolves with a response of some status (line 28); the code goes
\* on to await response.json() (line 29) without reading the status.
FetchResolve(m, i, status) ==
    /\ i \in DOMAIN reqs[m]
    /\ reqs[m][i].stage = "fetch"
    /\ reqs' = [reqs EXCEPT ![m][i] = [stage |-> "json", status |-> status]]
    /\ UNCHANGED <<NODE_ENV, phase, loading, error, predictions, plotUrl, currentPage,
                   rendered, dirty, effectPending, issued, settled,
                   wroteAfterUnmount, pgVars>>

\* response.json() settles (line 29) and the rest of fetchPredictions runs
\* (lines 31-41).
JsonSettle(m, i, body) ==
    /\ i \in DOMAIN reqs[m]
    /\ reqs[m][i].stage = "json"
    /\ reqs' = [reqs EXCEPT ![m] = RemoveAt(@, i)]
    /\ settled' = [settled EXCEPT ![m] = Responded(reqs[m][i].status, body)]
    /\ Commit(m, OnBody(Cells(m), body))
    /\ UNCHANGED <<NODE_ENV, phase, currentPage, rendered, effectPending, issued, pgVars>>

\* The instance is removed from the tree: nothing of it is shown any more
\* and no render or effect of it is scheduled.  The effect returns no
\* cleanup (line 45), so outstanding requests stay outstanding.
Unmount(m) ==
    /\ phase[m] = "mounted"
    /\ phase' = [phase EXCEPT ![m] = "unmounted"]
    /\ effectPending' = [effectPending EXCEPT ![m] = FALSE]
    /\ rendered' = [rendered EXCEPT ![m] = "none"]
    /\ dirty' = [dirty EXCEPT ![m] = FALSE]
    /\ UNCHANGED <<NODE_ENV, loading, error, predictions, plotUrl, currentPage,
                   issued, reqs, settled, wroteAfterUnmount, pgVars>>

Next ==
    \/ \E m \in Mounts : Mount(m)
    \/ \E m \in Mounts : Render(m)
    \/ \E m \in Mounts : RunEffect(m)
    \/ \E m \in Mounts : \E i \in 1..MaxFetches : FetchReject(m, i)
    \/ \E m \in Mounts : \E i \in 1..MaxFetches : \E s \in Statuses : FetchResolve(m, i, s)
    \/ \E m \in Mounts : \E i \in 1..MaxFetches : \E b \in Bodies : JsonSettle(m, i, b)
    \/ \E m \in Mounts : Unmount(m)

Spec == Init /\ [][Next]_vars


(***************************************************************************)
(* Paginator applied to bounded inputs                                     *)
(***************************************************************************)
\* A series of L distinct points in delivery order.
Series(L) == [i \in 1..L |-> [Date |-> i, Predicted_Price |-> 42000 + i]]

Min(a, b) == IF a < b THEN a ELSE b

PgInputs ==
    /\ pgPredictions \in {Series(L) : L \in 0..MaxSeriesLen}
    /\ pgItemsPerPage \in 1..MaxPageSize
    /\ pgCurrentPage = 0
    /\ pgItems = <<>>
    /\ pgAcc = <<>>
    /\ pgPc = "walk"

\* The visible slice of the current page is read (lines 51-55), then the
\* cursor moves to the next page below totalPages (line 48).
PgNextPage ==
    /\ pgPc = "walk"
    /\ pgCurrentPage < totalPages(pgPredictions, pgItemsPerPage)
    /\ pgItems' = getCurrentItems(pgPredictions, pgCurrentPage, pgItemsPerPage)
    /\ pgAcc' = pgAcc \o getCurrentItems(pgPredictions, pgCurrentPage, pgItemsPerPage)
    /\ pgCurrentPage' = pgCurrentPage + 1
    /\ UNCHANGED <<pgPredictions, pgItemsPerPage, pgPc, homeVars>>

\* setCurrentPage(p) with any index (line 22), then getCurrentItems().
PgGoToPage(p) ==
    /\ pgPc = "walk"
    /\ pgCurrentPage = 0
    /\ pgCurrentPage' = p
    /\ pgItems' = getCurrentItems(pgPredictions, p, pgItemsPerPage)
    /\ pgPc' = "jumped"
    /\ UNCHANGED <<pgPredictions, pgItemsPerPage, pgAcc, homeVars>>

NextPaginator ==
    \/ PgNextPage
    \/ \E p \in (0 - MaxPageBelow)..MaxPageIndex : PgGoToPage(p)

InitPaginator == InitHome /\ PgInputs

SpecPaginator == InitPaginator /\ [][NextPaginator]_vars

(***************************************************************************)
(* Properties                                                              *)
(***************************************************************************)
\* What one instance owns.
InstanceState(m) ==
    <<phase[m], loading[m], error[m], predictions[m], plotUrl[m], currentPage[m],
      rendered[m], dirty[m], effectPending[m], issued[m], reqs[m], settled[m],
      wroteAfterUnmount[m]>>

\* C1: within one mount the retrieval state starts in Loading and, once it
\* is Ready or Error, no step changes it again (so it changes at most once).
C1_TransitionsAtMostOnce ==
    [][\A m \in Mounts :
         /\ (phase[m] = "unborn" /\ phase'[m] = "mounted")
               => RetrievalState(m)' = "Loading"
         /\ (phase[m] # "unborn" /\ RetrievalState(m) # "Loading")
               => RetrievalState(m)' = RetrievalState(m)]_vars

C1_Witness ==
    \E m \in Mounts :
        /\ phase[m] = "mounted"
        /\ settled[m] # NoOutcome
        /\ RetrievalState(m) = "Error"
        /\ rendered[m] = "error"
        /\ ~dirty[m]

\* C2: after an instance has unmounted, the settlement of its outstanding
\* fetch calls no setter of loading, error, predictions or plotUrl.
C2_NoWriteAfterUnmount ==
    \A m \in Mounts : ~wroteAfterUnmount[m]

\* C3: every instance issues one request, never a second one after a
\* re-render, has at most one request outstanding, and a step of one
\* instance changes nothing that another instance owns.
C3_OneRequestPerMount ==
    /\ [](\A m \in Mounts :
            /\ issued[m] <= 1
            /\ Len(reqs[m]) <= 1
            /\ (phase[m] = "mounted" /\ rendered[m] # "none" /\ ~effectPending[m])
                  => issued[m] = 1)
    /\ [][\A m \in Mounts : \A k \in Mounts \ {m} :
            InstanceState(m)' # InstanceState(m)
               => InstanceState(k)' = InstanceState(k)]_vars

C3_Witness ==
    /\ issued[1] = 1 /\ issued[2] = 1
    /\ settled[1].kind = "rejected"
    /\ settled[2].kind = "response"
    /\ phase[2] = "mounted" /\ rendered[2] = "data" /\ ~dirty[2]

\* C4 as stated: on a payload with the success flag false the state is Error,
\* the reason is the payload's message when one is present and the fallback
\* text otherwise, and the series and chart source are not set.
C4_Original ==
    \A m \in Mounts :
        (settled[m].kind = "response" /\ settled[m].body.parses
           /\ ~settled[m].body.success)
        => /\ RetrievalState(m) = "Error"
           /\ error[m] = IF settled[m].body.message.type = "string"
                         THEN settled[m].body.message
                         ELSE Str(FallbackMessage)
           /\ predictions[m] = Arr(<<>>)
           /\ plotUrl[m] = ""

\* C4 amended: on a payload with the success flag false the state is Error,
\* the reason is the payload's message when it is present and not empty and
\* the fallback text otherwise, and the series and chart source are not set.
C4_ServerReported ==
    \A m \in Mounts :
        (settled[m].kind = "response" /\ settled[m].body.parses
           /\ ~settled[m].body.success)
        => /\ RetrievalState(m) = "Error"
           /\ error[m] = IF /\ settled[m].body.message.type = "string"
                            /\ settled[m].body.message.val # ""
                         THEN settled[m].body.message
                         ELSE Str(FallbackMessage)
           /\ predictions[m] = Arr(<<>>)
           /\ plotUrl[m] = ""

C4_Witness ==
    \E m \in Mounts :
        /\ settled[m].kind = "response"
        /\ settled[m].body = Json(FALSE, Undefined, Undefined, Str("model not trained"))
        /\ error[m] = Str("model not trained")
        /\ rendered[m] = "error"

\* C5: on every transport failure (the request rejects, the status is not a
\* success status, or the body cannot be parsed) the state is Error with the
\* generic connectivity message.
C5_TransportGeneric ==
    \A m \in Mounts :
        (\/ settled[m].kind = "rejected"
         \/ /\ settled[m].kind = "response"
            /\ (settled[m].status # 200 \/ ~settled[m].body.parses))
        => /\ RetrievalState(m) = "Error"
           /\ error[m] = Str(GenericConnectivityMessage)

\* C6: every failure (rejection, non-200 status, a body that does not parse
\* or lacks the wire shape, success flag false) ends in Error, never in Ready
\* and never in a fault raised while the view renders.
C6_FailuresEndInError ==
    \A m \in Mounts :
        (\/ settled[m].kind = "rejected"
         \/ /\ settled[m].kind = "response"
            /\ \/ settled[m].status # 200
               \/ ~WellShaped(settled[m].body)
               \/ ~settled[m].body.success)
        => /\ RetrievalState(m) = "Error"
           /\ View(m) # "fault"
           /\ rendered[m] # "fault"

\* C7: the view of every instance is exactly one of spinner, error message,
\* table and chart; table and chart exactly in Ready; whenever an error
\* reason is set the series is empty and the chart source unset.
C7_OneViewAtATime ==
    \A m \in Mounts :
        phase[m] # "unborn"
        => /\ View(m) \in {"spinner", "error", "data"}
           /\ rendered[m] \in {"none", "spinner", "error", "data"}
           /\ (View(m) = "data") <=> (RetrievalState(m) = "Ready")
           /\ error[m] # Null => (predictions[m] = Arr(<<>>) /\ plotUrl[m] = "")

\* C8: in Ready the chart source is the configured base location of the
\* build mode followed by the payload's plot_url.
C8_ChartSourceFromConfig ==
    \A m \in Mounts :
        (/\ settled[m].kind = "response"
         /\ WellShaped(settled[m].body)
         /\ settled[m].body.success
         /\ RetrievalState(m) = "Ready")
        => plotUrl[m] = apiUrl(NODE_ENV) \o settled[m].body.plot_url.val

\* C9: the page count is ceil(L / pageSize), 0 for the empty series, and the
\* visible slices of pages 0 .. pageCount-1 concatenated in order are the
\* series: while walking, the slices read so far are the prefix covered by
\* the pages visited, and after the last page they are the whole series.
C9_PagesPartitionSeries ==
    LET L == Len(pgPredictions)
        n == totalPages(pgPredictions, pgItemsPerPage)
    IN  /\ n >= 0
        /\ n * pgItemsPerPage >= L
        /\ (n - 1) * pgItemsPerPage < L
        /\ (L = 0) => (n = 0)
        /\ pgPc = "walk"
             => /\ pgCurrentPage <= n
                /\ pgAcc = SubSeq(pgPredictions, 1, Min(pgCurrentPage * pgItemsPerPage, L))
                /\ (pgCurrentPage = n) => (pgAcc = pgPredictions)

C9_Witness ==
    /\ pgPc = "walk"
    /\ Len(pgPredictions) = 17
    /\ pgItemsPerPage = itemsPerPage
    /\ totalPages(pgPredictions, pgItemsPerPage) = 3
    /\ pgCurrentPage = 3
    /\ pgItems = <<pgPredictions[17]>>
    /\ pgAcc = pgPredictions

\* The slice of page k of a series.
PageOf(series, k, size) ==
    SubSeq(series, k * size + 1, Min(Len(series), (k + 1) * size))

\* C10: a page index outside [0, pageCount) is clamped: below the range the
\* visible slice is that of page 0, above it that of page pageCount-1, and
\* with pageCount = 0 it is empty.
C10_IndexClamped ==
    LET n == totalPages(pgPredictions, pgItemsPerPage)
    IN  pgPc = "jumped"
          => pgItems = IF n = 0 THEN <<>>
                       ELSE IF pgCurrentPage < 0
                            THEN PageOf(pgPredictions, 0, pgItemsPerPage)
                       ELSE IF pgCurrentPage >= n
                            THEN PageOf(pgPredictions, n - 1, pgItemsPerPage)
                       ELSE PageOf(pgPredictions, pgCurrentPage, pgItemsPerPage)

=============================================================================
